---- MODULE Spec2Model ----
(***************************************************************************)
(* State-machine model of src/chess_engine.py: ChessEngine.minimax,        *)
(* ChessEngine.find_best_move and ChessEngine.evaluate_material, run over  *)
(* an abstract game tree that stands for the python-chess rules engine.    *)
(*                                                                         *)
(* A position is the move stack that leads to it from the position the     *)
(* caller set up (board.push appends, board.pop removes the last move).    *)
(* What the rules engine answers about a position (legal moves, game over, *)
(* checkmate, winner, piece counts) is fixed per behaviour by `game`.      *)
(***************************************************************************)
EXTENDS Integers, Sequences, FiniteSets, TLC

VARIABLES
    game,     \* the rules engine's answers: [turn, width, horizon, marks, pieces]
    aliased,  \* TRUE: the board argument is the object self.board
    phase,    \* "idle" | "running" | "done"
    call,     \* the outermost call: [fn, depth, alpha, beta, is_max]
    board,    \* the move stack of the board argument
    stack,    \* the Python call stack: one frame per active minimax/find_best_move
    ret,      \* the value the callee just returned, not yet consumed; or NoRet
    result,   \* what the outermost call returned
    reported  \* the best score find_best_move printed (line 188)

vars == <<game, aliased, phase, call, board, stack, ret, result, reported>>

(***************************** bounds ***************************************)
\* Every line of play ends (checkmate or stalemate) within MaxPly plies.
MaxPly == 2
\* Legal moves per non-terminal position.
MaxMoves == 2
\* Positions of a game tree that differ from the default (terminal before
\* the last ply, or reached by a capture).
MaxMarks == 1
\* Largest depth a caller passes.
MaxDepth == 3
\* Non-king pieces on a board a caller hands to minimax directly.
MaxPieces == 2

(************************* program constants ********************************)
WHITE == TRUE
BLACK == FALSE

PieceTypes == {"PAWN", "KNIGHT", "BISHOP", "ROOK", "QUEEN"}

PIECE_VALUES ==
    [t \in PieceTypes |->
        CASE t = "PAWN"   -> 1
          [] t = "KNIGHT" -> 3
          [] t = "BISHOP" -> 3
          [] t = "ROOK"   -> 5
          [] t = "QUEEN"  -> 9]

INF_SCORE == 1000000

\* best_move = None (line 158); the legal moves are numbered from 1.
None == 0
NoRet == [via |-> "none"]

\* chess.Board(): the standard starting position's non-king pieces.
StartingPieces ==
    [t \in PieceTypes |->
        [c \in BOOLEAN |->
            CASE t = "PAWN"  -> 8
              [] t = "QUEEN" -> 1
              [] OTHER       -> 2]]

(*************************** the rules engine *******************************)
Mark(p) == IF p \in DOMAIN game.marks THEN game.marks[p] ELSE "none"

Prefix(p, k) == SubSeq(p, 1, k)

\* board.turn: the sides alternate with every pushed move.
Turn(p) == IF Len(p) % 2 = 0 THEN game.turn ELSE ~game.turn

\* board.is_checkmate()
IsCheckmate(p) == Mark(p) = "checkmate"

\* board.is_game_over(): checkmate, stalemate, or a draw the rules declare
\* (insufficient material, seventy-five moves, fivefold repetition).
IsGameOver(p) ==
    \/ Mark(p) \in {"checkmate", "stalemate", "draw"}
    \/ Len(p) >= game.horizon

\* board.legal_moves, in the rules engine's (stable) enumeration order 1..n.
\* A checkmated or stalemated side has none; a declared draw still has moves.
LegalMoves(p) ==
    IF Mark(p) \in {"checkmate", "stalemate"} \/ Len(p) >= game.horizon
    THEN {}
    ELSE 1 .. game.width

\* board.outcome().winner on a checkmate: the side that just moved.
Winner(p) == ~Turn(p)

\* len(board.pieces(piece_type, color)): the starting count less the pieces
\* of that kind the side has lost to captures on the way to p.
PieceCount(p, t, c) ==
    game.pieces[t][c]
      - Cardinality({k \in 1 .. Len(p) :
                        Mark(Prefix(p, k)) = t /\ Turn(Prefix(p, k)) = c})

PiecesAt(p) == [t \in PieceTypes |-> [c \in BOOLEAN |-> PieceCount(p, t, c)]]

(***************************** evaluation ***********************************)
\* self.board as evaluate_material reads it: the argument when the caller
\* passed self.board, else the engine's own board, which __init__ set to
\* the starting position and which the search never pushes to.
SelfBoardPieces == IF aliased THEN PiecesAt(board) ELSE StartingPieces

RECURSIVE MaterialSum(_, _)
MaterialSum(pieces, types) ==
    IF types = {} THEN 0
    ELSE LET t == CHOOSE x \in types : TRUE
         IN  pieces[t][WHITE] * PIECE_VALUES[t]
               - pieces[t][BLACK] * PIECE_VALUES[t]
               + MaterialSum(pieces, types \ {t})

\* evaluate_material(board): the parameter is not read, self.board is.
evaluate_material == MaterialSum(SelfBoardPieces, PieceTypes)

(************************** the Python call stack ****************************)
Max(a, b) == IF a >= b THEN a ELSE b
Min(a, b) == IF a <= b THEN a ELSE b

Top == stack[Len(stack)]
NumMoves == Cardinality(LegalMoves(board))

\* A fresh activation; `best` is max_eval / min_eval / best_eval, `move` the
\* index of the move the for loop is at (0 before the first), `evals` the
\* values the children returned so far (a history, read by no action).
Frame(fn, depth, alpha, beta, is_max, pc) ==
    [fn |-> fn, depth |-> depth, alpha |-> alpha, beta |-> beta,
     is_max |-> is_max, best |-> IF is_max THEN -INF_SCORE ELSE INF_SCORE,
     best_move |-> None, move |-> 0, evaluation |-> 0, evals |-> <<>>,
     pc |-> pc]

SetTop(f) == [stack EXCEPT ![Len(stack)] = f]

\* `return v` from the frame on top of the stack.
Return(v, via) ==
    /\ ret' = [via |-> via, val |-> v, depth |-> Top.depth,
               is_max |-> Top.is_max, evals |-> Top.evals]
    /\ stack' = SubSeq(stack, 1, Len(stack) - 1)
    /\ IF Len(stack) = 1
       THEN phase' = "done" /\ result' = v
       ELSE UNCHANGED <<phase, result>>

(******************************** minimax ************************************)
InMinimax(pc) ==
    /\ phase = "running"
    /\ stack # <<>>
    /\ Top.fn = "minimax"
    /\ Top.pc = pc

\* Faulty variant of TerminalScore: the winner taken to be the side to move.
TerminalScoreByTurn(p, depth) ==
    IF IsCheckmate(p)
    THEN IF Turn(p) = WHITE THEN INF_SCORE + depth ELSE -INF_SCORE - depth
    ELSE 0

\* lines 79-99: the score of a finished game.
TerminalScore(p, depth) ==
    IF IsCheckmate(p)
    THEN IF Winner(p) = WHITE THEN INF_SCORE + depth ELSE -INF_SCORE - depth
    ELSE 0

\* lines 76-77
MinimaxLeaf ==
    /\ InMinimax("entry")
    /\ Top.depth = 0
    /\ Return(evaluate_material, "leaf")
    /\ UNCHANGED <<game, aliased, call, board, reported>>

\* lines 79-99
MinimaxGameOver ==
    /\ InMinimax("entry")
    /\ Top.depth # 0
    /\ IsGameOver(board)
    /\ Return(TerminalScore(board, Top.depth), "terminal")
    /\ UNCHANGED <<game, aliased, call, board, reported>>

\* lines 103-104, 128-129: max_eval = -INF_SCORE / min_eval = INF_SCORE
MinimaxBegin ==
    /\ InMinimax("entry")
    /\ Top.depth # 0
    /\ ~IsGameOver(board)
    /\ stack' = SetTop([Top EXCEPT !.pc = "loop"])
    /\ UNCHANGED <<game, aliased, phase, call, board, ret, result, reported>>

\* Faulty variant of MinimaxPush: the recursive call passes depth, not depth - 1.
MinimaxPushSameDepth ==
    /\ InMinimax("loop")
    /\ Top.move < NumMoves
    /\ LET m == Top.move + 1
       IN  /\ board' = Append(board, m)
           /\ stack' = Append(SetTop([Top EXCEPT !.move = m, !.pc = "called"]),
                              Frame("minimax", Top.depth, Top.alpha,
                                    Top.beta, ~Top.is_max, "entry"))
    /\ UNCHANGED <<game, aliased, phase, call, ret, result, reported>>

\* lines 107-111, 132-134: board.push(move) and the recursive call
MinimaxPush ==
    /\ InMinimax("loop")
    /\ Top.move < NumMoves
    /\ LET m == Top.move + 1
       IN  /\ board' = Append(board, m)
           /\ stack' = Append(SetTop([Top EXCEPT !.move = m, !.pc = "called"]),
                              Frame("minimax", Top.depth - 1, Top.alpha,
                                    Top.beta, ~Top.is_max, "entry"))
    /\ UNCHANGED <<game, aliased, phase, call, ret, result, reported>>

\* Faulty variant of MinimaxPop: board.pop() placed after the cutoff test, so a
\* node that returns through alpha >= beta leaves its move on the board.
MinimaxPopAfterCutoffTest ==
    /\ InMinimax("called")
    /\ ret # NoRet
    /\ LET best  == IF Top.is_max THEN Max(Top.best, ret.val)
                                  ELSE Min(Top.best, ret.val)
           alpha == IF Top.is_max THEN Max(Top.alpha, best) ELSE Top.alpha
           beta  == IF Top.is_max THEN Top.beta ELSE Min(Top.beta, best)
       IN  board' = IF alpha >= beta THEN board
                                     ELSE SubSeq(board, 1, Len(board) - 1)
    /\ stack' = SetTop([Top EXCEPT !.evaluation = ret.val,
                                   !.evals = Append(@, ret.val),
                                   !.pc = "update"])
    /\ ret' = NoRet
    /\ UNCHANGED <<game, aliased, phase, call, result, reported>>

\* lines 111-113, 134-135: the call returns and board.pop() undoes the move
MinimaxPop ==
    /\ InMinimax("called")
    /\ ret # NoRet
    /\ board' = SubSeq(board, 1, Len(board) - 1)
    /\ stack' = SetTop([Top EXCEPT !.evaluation = ret.val,
                                   !.evals = Append(@, ret.val),
                                   !.pc = "update"])
    /\ ret' = NoRet
    /\ UNCHANGED <<game, aliased, phase, call, result, reported>>

\* lines 116-123, 137-141: running best, the bound, the cutoff
MinimaxUpdate ==
    /\ InMinimax("update")
    /\ LET best  == IF Top.is_max THEN Max(Top.best, Top.evaluation)
                                  ELSE Min(Top.best, Top.evaluation)
           alpha == IF Top.is_max THEN Max(Top.alpha, best) ELSE Top.alpha
           beta  == IF Top.is_max THEN Top.beta ELSE Min(Top.beta, best)
       IN  IF alpha >= beta
           THEN Return(best, "cutoff")
           ELSE /\ stack' = SetTop([Top EXCEPT !.best = best, !.alpha = alpha,
                                               !.beta = beta, !.pc = "loop"])
                /\ UNCHANGED <<phase, ret, result>>
    /\ UNCHANGED <<game, aliased, call, board, reported>>

\* lines 125, 143: the loop ran out of moves
MinimaxEnd ==
    /\ InMinimax("loop")
    /\ Top.move = NumMoves
    /\ Return(Top.best, "end")
    /\ UNCHANGED <<game, aliased, call, board, reported>>

(***************************** find_best_move ********************************)
InFind(pc) ==
    /\ phase = "running"
    /\ stack # <<>>
    /\ Top.fn = "find_best_move"
    /\ Top.pc = pc

\* lines 164-171
FindPush ==
    /\ InFind("loop")
    /\ Top.move < NumMoves
    /\ LET m == Top.move + 1
       IN  /\ board' = Append(board, m)
           /\ stack' = Append(SetTop([Top EXCEPT !.move = m, !.pc = "called"]),
                              Frame("minimax", Top.depth - 1, Top.alpha,
                                    Top.beta, ~Top.is_max, "entry"))
    /\ UNCHANGED <<game, aliased, phase, call, ret, result, reported>>

\* lines 169-174
FindPop ==
    /\ InFind("called")
    /\ ret # NoRet
    /\ board' = SubSeq(board, 1, Len(board) - 1)
    /\ stack' = SetTop([Top EXCEPT !.evaluation = ret.val,
                                   !.evals = Append(@, ret.val),
                                   !.pc = "update"])
    /\ ret' = NoRet
    /\ UNCHANGED <<game, aliased, phase, call, result, reported>>

\* lines 177-186
FindUpdate ==
    /\ InFind("update")
    /\ LET better == IF Top.is_max THEN Top.evaluation > Top.best
                                   ELSE Top.evaluation < Top.best
           best   == IF better THEN Top.evaluation ELSE Top.best
           bmove  == IF better THEN Top.move ELSE Top.best_move
       IN  stack' = SetTop([Top EXCEPT
                              !.best = best, !.best_move = bmove,
                              !.alpha = IF Top.is_max THEN Max(@, best) ELSE @,
                              !.beta  = IF Top.is_max THEN @ ELSE Min(@, best),
                              !.pc = "loop"])
    /\ UNCHANGED <<game, aliased, phase, call, board, ret, result, reported>>

\* lines 188-195
FindReturn ==
    /\ InFind("loop")
    /\ Top.move = NumMoves
    /\ reported' = Top.best
    /\ result' = Top.best_move
    /\ phase' = "done"
    /\ stack' = <<>>
    /\ UNCHANGED <<game, aliased, call, board, ret>>

(******************************** the callers ********************************)
Depths == 0 .. MaxDepth

\* engine.minimax(engine.board, depth, -INF_SCORE, INF_SCORE, white to move):
\* the search as find_best_move and a root caller start it.
CallMinimax ==
    /\ phase = "idle"
    /\ \E depth \in Depths :
          /\ call' = [fn |-> "minimax", depth |-> depth, alpha |-> -INF_SCORE,
                      beta |-> INF_SCORE, is_max |-> (Turn(board) = WHITE)]
          /\ stack' = <<Frame("minimax", depth, -INF_SCORE, INF_SCORE,
                              Turn(board) = WHITE, "entry")>>
    /\ aliased' = TRUE
    /\ phase' = "running"
    /\ UNCHANGED <<game, board, ret, result, reported>>

\* engine.find_best_move(depth): lines 150-161
CallFindBestMove ==
    /\ phase = "idle"
    /\ \E depth \in Depths :
          /\ call' = [fn |-> "find_best_move", depth |-> depth,
                      alpha |-> -INF_SCORE, beta |-> INF_SCORE,
                      is_max |-> (Turn(board) = WHITE)]
          /\ stack' = <<Frame("find_best_move", depth, -INF_SCORE, INF_SCORE,
                              Turn(board) = WHITE, "loop")>>
    /\ aliased' = TRUE
    /\ phase' = "running"
    /\ UNCHANGED <<game, board, ret, result, reported>>

\* Windows a direct caller passes: alpha < beta, from the sentinels and 0.
Windows ==
    {w \in {-INF_SCORE, 0, INF_SCORE} \X {-INF_SCORE, 0, INF_SCORE} : w[1] < w[2]}

\* engine.minimax(b, depth, alpha, beta, flag) with every argument the
\* caller's choice; b is engine.board or another chess.Board.
CallMinimaxOn ==
    /\ phase = "idle"
    /\ \E depth \in Depths, w \in Windows, flag \in BOOLEAN :
          /\ call' = [fn |-> "minimax", depth |-> depth, alpha |-> w[1],
                      beta |-> w[2], is_max |-> flag]
          /\ stack' = <<Frame("minimax", depth, w[1], w[2], flag, "entry")>>
    /\ aliased' \in BOOLEAN
    /\ phase' = "running"
    /\ UNCHANGED <<game, board, ret, result, reported>>

\* engine.minimax(engine.board, depth, -INF_SCORE, INF_SCORE, white to move)
\* at the deepest depths: up to one ply deeper than Depths, deep enough to
\* see a mate in three.
CallMinimaxDeep ==
    /\ phase = "idle"
    /\ \E depth \in {MaxDepth, MaxDepth + 1} :
          /\ call' = [fn |-> "minimax", depth |-> depth, alpha |-> -INF_SCORE,
                      beta |-> INF_SCORE, is_max |-> (Turn(board) = WHITE)]
          /\ stack' = <<Frame("minimax", depth, -INF_SCORE, INF_SCORE,
                              Turn(board) = WHITE, "entry")>>
    /\ aliased' = TRUE
    /\ phase' = "running"
    /\ UNCHANGED <<game, board, ret, result, reported>>

(******************************* game trees **********************************)
TerminalKinds == {"checkmate", "stalemate", "draw"}

\* The captures a game tree of the search specifications contains.
Captured == {"PAWN", "QUEEN"}

Paths(h, w) == UNION {[1 .. k -> 1 .. w] : k \in 0 .. h}

RECURSIVE SubsetsUpTo(_, _)
SubsetsUpTo(S, k) ==
    IF k = 0 THEN {{}}
    ELSE LET smaller == SubsetsUpTo(S, k - 1)
         IN  smaller \cup {T \cup {x} : T \in smaller, x \in S}

\* A marking the rules allow: the root is not reached by a capture, a draw
\* declared on the last ply is the default ending, and nothing is marked
\* below a position where the game is over.
WellMarked(h, marks) ==
    \A p \in DOMAIN marks :
        /\ Len(p) = 0 => marks[p] \in TerminalKinds
        /\ Len(p) = h => marks[p] # "draw"
        /\ \A k \in 0 .. Len(p) - 1 :
              Prefix(p, k) \in DOMAIN marks
                  => marks[Prefix(p, k)] \notin TerminalKinds

Games(h, widths, maxMarks, kinds, boards) ==
    UNION { UNION { { [turn |-> t, width |-> w, horizon |-> h, marks |-> m,
                       pieces |-> b] :
                      m \in {f \in [S -> kinds] : WellMarked(h, f)} } :
                    S \in SubsetsUpTo(Paths(h, w), maxMarks) } :
            t \in BOOLEAN, w \in widths, b \in boards }

RECURSIVE Total(_, _)
Total(pieces, types) ==
    IF types = {} THEN 0
    ELSE LET t == CHOOSE x \in types : TRUE
         IN  pieces[t][WHITE] + pieces[t][BLACK] + Total(pieces, types \ {t})

\* Boards with at most n non-king pieces.
SmallBoards(n) ==
    {b \in [PieceTypes -> [BOOLEAN -> 0 .. n]] : Total(b, PieceTypes) <= n}

Idle ==
    /\ aliased = TRUE
    /\ phase = "idle"
    /\ call = [fn |-> "none"]
    /\ board = <<>>
    /\ stack = <<>>
    /\ ret = NoRet
    /\ result = None
    /\ reported = None

(***************************** specifications ********************************)
\* The search from the starting material, over every game tree of MaxPly
\* plies with up to MaxMarks marked positions.
Init ==
    /\ game \in Games(MaxPly, 1 .. MaxMoves, MaxMarks,
                      {"checkmate", "draw"} \cup Captured, {StartingPieces})
    /\ Idle

Next ==
    \/ CallMinimax
    \/ CallFindBestMove
    \/ MinimaxLeaf
    \/ MinimaxGameOver
    \/ MinimaxBegin
    \/ MinimaxPush
    \/ MinimaxPop
    \/ MinimaxUpdate
    \/ MinimaxEnd
    \/ FindPush
    \/ FindPop
    \/ FindUpdate
    \/ FindReturn

Spec == Init /\ [][Next]_vars

\* One call of minimax with arguments of the caller's choice, on a board at
\* most one ply from the end of its game: the game is over at the root (by
\* default or by a mark) or after any one move.
InitNode ==
    /\ \E h \in {0, 1} :
          game \in Games(h, 1 .. MaxMoves, 1, TerminalKinds, SmallBoards(MaxPieces))
    /\ Idle

NextNode ==
    \/ CallMinimaxOn
    \/ MinimaxLeaf
    \/ MinimaxGameOver
    \/ MinimaxBegin
    \/ MinimaxPush
    \/ MinimaxPop
    \/ MinimaxUpdate
    \/ MinimaxEnd

SpecNode == InitNode /\ [][NextNode]_vars

\* The deep search over game trees one ply longer, every position with
\* MaxMoves moves, marked only by checkmates.
InitMate ==
    /\ game \in Games(MaxPly + 1, {MaxMoves}, MaxMarks + 2, {"checkmate"},
                      {StartingPieces})
    /\ Idle

NextMate ==
    \/ CallMinimaxDeep
    \/ MinimaxLeaf
    \/ MinimaxGameOver
    \/ MinimaxBegin
    \/ MinimaxPush
    \/ MinimaxPop
    \/ MinimaxUpdate
    \/ MinimaxEnd

SpecMate == InitMate /\ [][NextMate]_vars

(****************************** reference ************************************)
\* What the claims compare the program with; none of this models code.
SetMax(S) == CHOOSE x \in S : \A y \in S : x >= y
SetMin(S) == CHOOSE x \in S : \A y \in S : x <= y
Range(f) == {f[i] : i \in DOMAIN f}

\* The material balance of a board: sum over the five kinds of
\* (White count - Black count) * value.
Balance(pieces) ==
      (pieces["PAWN"][WHITE]   - pieces["PAWN"][BLACK])   * 1
    + (pieces["KNIGHT"][WHITE] - pieces["KNIGHT"][BLACK]) * 3
    + (pieces["BISHOP"][WHITE] - pieces["BISHOP"][BLACK]) * 3
    + (pieces["ROOK"][WHITE]   - pieces["ROOK"][BLACK])   * 5
    + (pieces["QUEEN"][WHITE]  - pieces["QUEEN"][BLACK])  * 9

\* The specified terminal scoring: INF_SCORE + depth when White delivered the
\* mate (Black, to move, is mated), -INF_SCORE - depth when Black did, else 0.
MateScore(p, depth) ==
    IF Mark(p) = "checkmate"
    THEN IF Turn(p) = BLACK THEN INF_SCORE + depth ELSE -INF_SCORE - depth
    ELSE 0

\* Unpruned full minimax: the true maximum (minimum) over all children.
RECURSIVE FullMinimax(_, _, _)
FullMinimax(p, depth, is_max) ==
    IF depth = 0 THEN Balance(PiecesAt(p))
    ELSE IF IsGameOver(p) THEN MateScore(p, depth)
    ELSE LET children == {FullMinimax(Append(p, m), depth - 1, ~is_max) :
                             m \in LegalMoves(p)}
         IN  IF is_max THEN SetMax(children) ELSE SetMin(children)

Root == <<>>
Finished(fn) == phase = "done" /\ call.fn = fn
Returned(vias) == ret # NoRet /\ ret.via \in vias

(********************************* C1 ****************************************)
\* C1: minimax called with alpha = -INF_SCORE, beta = +INF_SCORE and a depth
\* >= 1 returns the value of the unpruned full minimax of the same depth.
C1_EqualsFullMinimax ==
    (Finished("minimax") /\ call.depth >= 1)
        => result = FullMinimax(Root, call.depth, call.is_max)

(********************************* C2 ****************************************)
TrueValue(m) == FullMinimax(<<m>>, call.depth - 1, ~call.is_max)

BestTrueValue ==
    LET values == {TrueValue(m) : m \in LegalMoves(Root)}
    IN  IF call.is_max THEN SetMax(values) ELSE SetMin(values)

\* C2: with a legal root move and depth >= 1, find_best_move returns a root
\* move whose unpruned depth-limited minimax value is the best of all root
\* moves for the side to move.
C2_ReturnsBestMove ==
    (Finished("find_best_move") /\ call.depth >= 1 /\ LegalMoves(Root) # {})
        => /\ result \in LegalMoves(Root)
           /\ TrueValue(result) = BestTrueValue

(********************************* C3 ****************************************)
\* C3: find_best_move returns None if and only if the root position has no
\* legal move, and otherwise returns one of the legal root moves.
C3_NoneIffNoLegalMove ==
    Finished("find_best_move")
        => /\ (result = None) <=> (LegalMoves(Root) = {})
           /\ result # None => result \in LegalMoves(Root)

(********************************* C4 ****************************************)
\* The frames that applied a move and have not undone it yet.
Called == {k \in DOMAIN stack : stack[k].pc = "called"}

\* C4: the board is exactly the caller's position with the moves of the
\* frames still waiting for (or just handed) their child's result applied in
\* order: a frame that is about to apply the next sibling, test the cutoff or
\* return has undone its move, and once the outermost call has returned the
\* board is the position it was given.
C4_BoardRestored ==
    /\ board = [k \in 1 .. Cardinality(Called) |-> stack[k].move]
    /\ phase = "done" => board = Root

\* A node below the root has just returned through the alpha >= beta cutoff
\* and the board is that node's position again.
C4_Witness ==
    /\ Returned({"cutoff"})
    /\ Len(stack) >= 1
    /\ ret.evals # <<>>
    /\ board = [k \in 1 .. Len(stack) |-> stack[k].move]

(********************************* C5 ****************************************)
HasMateInOne(p) ==
    /\ ~IsGameOver(p)
    /\ \E m \in LegalMoves(p) : IsCheckmate(Append(p, m))

Score == IF call.fn = "minimax" THEN result ELSE reported

\* C5: when the side to move has a move that delivers checkmate, the search
\* at any depth >= 1 returns (find_best_move: reports) a score of magnitude
\* >= INF_SCORE with the sign of the mating side.
C5_MateInOneScore ==
    (phase = "done" /\ call.depth >= 1 /\ HasMateInOne(Root))
        => IF Turn(Root) = WHITE THEN Score >= INF_SCORE
                                 ELSE Score <= -INF_SCORE

(********************************* C6 ****************************************)
\* The side to move at p mates by force in three plies through move m: the
\* move ends no game, and whatever the reply, a mating move follows.
MatesInThreeBy(p, m) ==
    LET q == Append(p, m)
    IN  /\ ~IsGameOver(q)
        /\ \A r \in LegalMoves(q) : HasMateInOne(Append(q, r))

\* C6: a node where the side to move has both a mate in one and a forced
\* mate in three inside the horizon returns the score of the shorter mate,
\* INF_SCORE + (depth - 1) for White and its negation for Black, whatever
\* the order the moves are enumerated in.
C6_ShorterMateWins ==
    (/\ Finished("minimax")
     /\ call.depth >= 4
     /\ HasMateInOne(Root)
     /\ \E m \in LegalMoves(Root) : MatesInThreeBy(Root, m))
        => result = IF Turn(Root) = WHITE
                    THEN INF_SCORE + (call.depth - 1)
                    ELSE -INF_SCORE - (call.depth - 1)

(********************************* C7 ****************************************)
\* C7: minimax(p, 0, alpha, beta, flag) returns the material balance of the
\* position p passed as the board argument and leaves p as it was.
C7_LeafIsBalanceOfArgument ==
    Returned({"leaf"}) /\ Len(stack) = 0
        => /\ ret.val = Balance(PiecesAt(board))
           /\ board = Root

(********************************* C8 ****************************************)
AtTerminalEntry ==
    /\ InMinimax("entry")
    /\ Top.depth > 0
    /\ IsGameOver(board)

\* C8: minimax entered with depth > 0 on a finished game returns at once,
\* with no move enumerated or applied: INF_SCORE + depth when White
\* delivered checkmate, -INF_SCORE - depth when Black did, 0 for a stalemate
\* or any other draw, whatever alpha, beta and the maximizing flag are.
C8_TerminalBranch ==
    [][AtTerminalEntry
         => /\ ret' # NoRet
            /\ ret'.via = "terminal"
            /\ ret'.val = MateScore(board, Top.depth)
            /\ board' = board
            /\ stack' = SubSeq(stack, 1, Len(stack) - 1)]_vars

\* A checkmate White delivered was scored in a call whose flag says the
\* minimizing side is to move and whose window does not hold the score.
C8_Witness ==
    /\ Returned({"terminal"})
    /\ Len(stack) = 0
    /\ IsCheckmate(board)
    /\ Turn(board) = BLACK
    /\ call.is_max
    /\ call.beta = 0
    /\ result = INF_SCORE + call.depth

(********************************* C9 ****************************************)
\* Steps a minimax activation entered with depth d >= 0 takes at most.
RECURSIVE Steps(_)
Steps(d) == IF d = 0 THEN 1 ELSE 2 + game.width * (3 + Steps(d - 1))

\* Steps left to the activation f, its children's not counted.
Remaining(f) ==
    IF f.pc = "entry" THEN Steps(f.depth)
    ELSE LET rest == 1 + (game.width - f.move) * (3 + Steps(f.depth - 1))
         IN  CASE f.pc = "loop"   -> rest
               [] f.pc = "update" -> rest + 1
               [] f.pc = "called" -> rest + 2

RECURSIVE StepsLeft(_)
StepsLeft(frames) ==
    IF frames = <<>> THEN 0
    ELSE Remaining(frames[Len(frames)])
           + StepsLeft(SubSeq(frames, 1, Len(frames) - 1))

Variant == StepsLeft(stack)

\* The depths the contract allows: minimax takes depth >= 0, and
\* find_best_move, which calls minimax(depth - 1), takes depth >= 1.
InContract ==
    /\ phase = "running"
    /\ call.depth >= (IF call.fn = "minimax" THEN 0 ELSE 1)

\* C9 as stated: for every depth a caller supplies, the moves applied and
\* not yet undone never number more than that depth (and the search ends).
C9_DepthBoundsRecursion ==
    phase # "idle" => Len(board) <= call.depth

\* C9 amended: for find_best_move with depth >= 1 and minimax with depth
\* >= 0, the moves applied and not yet undone never number more than the
\* depth, and the search terminates: a step is always possible until the
\* call has returned, and every step lowers a non-negative step count.
C9_InContractBounded ==
    /\ [](InContract => /\ Len(board) <= call.depth
                        /\ Variant >= 0
                        /\ ENABLED Next)
    /\ [][InContract => Variant' < Variant]_vars

\* The recursion is as deep as the depth allows: a leaf two plies down.
C9_Witness ==
    /\ phase = "running"
    /\ call.fn = "find_best_move"
    /\ call.depth = 2
    /\ Returned({"leaf"})
    /\ Len(board) = 2

(********************************* C10 ***************************************)
\* C10: what a node with depth > 0 and at least one legal move returns, on a
\* cutoff or after its last move, is the running maximum (minimum) of the
\* values its examined children returned, so the value of one of them.
C10_FailSoft ==
    (Returned({"cutoff", "end"}) /\ ret.evals # <<>>)
        => ret.val = IF ret.is_max THEN SetMax(Range(ret.evals))
                                   ELSE SetMin(Range(ret.evals))

====
